---- MODULE Spec2Model ----
(***************************************************************************)
(* Render-state lifecycle and frame dispatch of the wgpu/winit renderer    *)
(* (src/src/lib.rs): App::resumed, App::window_event and GameState's       *)
(* new / resize / input / update / render.                                 *)
(*                                                                         *)
(* One action per event the event loop delivers.  Every handler is a pure  *)
(* operator from the application (window, state, event-loop flags) to the  *)
(* application after the handler returned or panicked.                     *)
(*                                                                         *)
(* Spec      frame dispatch: every window size and event, a one-mesh model *)
(*           file, a short instance grid.                                  *)
(* SpecGrid  the same handlers on the source's 10 x 10 x 10 instance grid. *)
(* SpecModels the same handlers on any model file resources::load_model    *)
(*           (src/src/resources.rs) may be given.                          *)
(***************************************************************************)
EXTENDS Integers, Sequences, FiniteSets, TLC

(* ------------------------------ bounds -------------------------------- *)
\* Window widths and heights range over 0..MaxDim (0 = minimised window).
MaxDim == 2
\* The camera eye moves on one axis within -MaxEye..MaxEye.
MaxEye == 1
\* Number of resumed events the event loop delivers in one run.
MaxResumed == 2
\* Row length of the instance grid under Spec and SpecModels; SpecGrid runs
\* on the source's row length, NumInstancesPerRow.
ShortRow == 1

Dims == 0..MaxDim
PosDims == 1..MaxDim
Sizes == Dims \X Dims
PosSizes == PosDims \X PosDims

(* --------------------------- pure helpers ----------------------------- *)
RECURSIVE Gcd(_, _)
Gcd(a, b) == IF b = 0 THEN a ELSE Gcd(b, a % b)

\* width as f32 / height as f32: the quotient as a number, so that 2/2 and
\* 1/1 are the same aspect.  (Sizes here are far below 2^24, where the
\* u32 -> f32 cast is exact.)
Ratio(w, h) == <<w \div Gcd(w, h), h \div Gcd(w, h)>>

\* Option<T> is a sequence of length 0 (None) or 1 (Some).
None == <<>>
Some(x) == <<x>>
IsSome(o) == Len(o) = 1

Count(seq, x) == Cardinality({i \in 1..Len(seq) : seq[i] = x})
Has(seq, x) == \E i \in 1..Len(seq) : seq[i] = x
FirstIndex(seq, x) == CHOOSE i \in 1..Len(seq) : seq[i] = x /\ \A j \in 1..(i-1) : seq[j] # x

(* ------------- collaborators whose source is not in src/ -------------- *)
\* camera::Camera::new(width, height): aspect = width / height.
Camera_new(width, height) == [eye |-> 0, aspect |-> Ratio(width, height)]

\* camera::CameraUniform::new(): the identity matrix.
CameraUniform_new == [view |-> 0, proj |-> <<1, 1>>]

\* camera::CameraUniform::update_view_proj: projection(aspect) x view(eye).
update_view_proj(camera) == [view |-> 0 - camera.eye, proj |-> camera.aspect]

\* camera_controller::CameraController::new(): no key held.
CameraController_new == 0

Keys == {"W", "S", "Q"}

\* camera_controller::CameraController::process_events: a movement key is
\* consumed and sets the pending delta; every other event is not consumed.
process_events(controller, event) ==
    IF event.kind = "KeyboardInput" /\ event.key \in {"W", "S"}
    THEN [consumed |-> TRUE,
          controller |-> IF ~event.pressed THEN 0
                         ELSE IF event.key = "W" THEN 1 ELSE 0 - 1]
    ELSE [consumed |-> FALSE, controller |-> controller]

\* camera_controller::CameraController::update_camera: one motion step,
\* clamped.
update_camera(controller, camera) ==
    LET e == camera.eye + controller
    IN [camera EXCEPT !.eye = IF e > MaxEye THEN MaxEye
                               ELSE IF e < 0 - MaxEye THEN 0 - MaxEye ELSE e]

\* texture::Texture::create_depth_texture(device, config, label): a depth
\* target sized to the surface configuration.
create_depth_texture(config) == config

(* ------------------------------ events -------------------------------- *)
\* The window id of the application's own window, and a foreign one.
OwnId == "own"
ForeignId == "foreign"
WindowIds == {OwnId, ForeignId}

Ev(k, width, height, code, down) ==
    [kind |-> k, w |-> width, h |-> height, key |-> code, pressed |-> down]

\* wgpu::Surface::get_current_texture: Ok or a wgpu::SurfaceError.
SurfaceErrors == {"Timeout", "Outdated", "Lost", "OutOfMemory"}
Acquires == {"Ok"} \cup SurfaceErrors

VARIABLES
    window,            \* App.window: Option<Arc<Window>> (the window's id)
    state,             \* App.state: Option<GameState>
    exiting,           \* event_loop.exit() has been called
    panicked,          \* a handler panicked: the process is gone
    redraw_requested,  \* window.request_redraw() is pending
    new_calls,         \* number of GameState::new calls so far
    resumed_count,     \* number of resumed events delivered
    last               \* the event handled last and the state it started from

vars == <<window, state, exiting, panicked, redraw_requested, new_calls,
          resumed_count, last>>

App == [window |-> window, state |-> state, exiting |-> exiting,
        panicked |-> panicked, redraw_requested |-> redraw_requested,
        new_calls |-> new_calls]

(* ------------------------- the instance grid -------------------------- *)
\* let num_instances_per_row = 10
NumInstancesPerRow == 10
\* let space_between = 3.0
SpaceBetween == 3

Abs(n) == IF n < 0 THEN 0 - n ELSE n

\* cgmath Zero::is_zero on a Vector3.
is_zero(v) == v = <<0, 0, 0>>

\* cgmath InnerSpace::normalize: the unit vector of v's direction, written as
\* the shortest integer vector of that direction (grid positions are
\* integral).  The zero vector has no direction: 0/0 in every component.
normalize(v) ==
    LET g == Gcd(Gcd(Abs(v[1]), Abs(v[2])), Abs(v[3]))
    IN IF g = 0 THEN <<"NaN", "NaN", "NaN">>
       ELSE <<v[1] \div g, v[2] \div g, v[3] \div g>>

\* cgmath Quaternion::from_axis_angle(axis, Deg(deg)): scalar cos(deg/2),
\* vector axis * sin(deg/2).  At 0 degrees the vector part vanishes whatever
\* the axis: the identity rotation.
from_axis_angle(axis, deg) ==
    IF deg = 0 THEN [axis |-> <<0, 0, 0>>, deg |-> 0]
    ELSE [axis |-> axis, deg |-> deg]

\* space_between * (i as f32 - num_instances_per_row as f32 / 2.0), held in
\* half units (twice the value) so that odd row lengths stay exact.
coordinate(i, n) == SpaceBetween * (2 * i - n)

\* The closure body without the is_zero test.
instance_at_NoZeroTest(x, y, z, n) ==
    LET position == <<coordinate(x, n), coordinate(y, n), coordinate(z, n)>>
    IN [position |-> position,
        rotation |-> from_axis_angle(normalize(position), 45)]

\* The closure body: one instance of the grid.
instance_at(x, y, z, n) ==
    LET position == <<coordinate(x, n), coordinate(y, n), coordinate(z, n)>>
        rotation == IF is_zero(position)
                    THEN from_axis_angle(<<0, 0, 1>>, 0)
                    ELSE from_axis_angle(normalize(position), 45)
    IN [position |-> position, rotation |-> rotation]

\* (0..n).flat_map(|z| (0..n).flat_map(|x| (0..n).map(|y| ...))).collect()
\* n is num_instances_per_row.
instances_new(n) ==
    [k \in 1..(n * n * n) |->
       instance_at(((k - 1) \div n) % n, (k - 1) % n, (k - 1) \div (n * n), n)]

(* --------------------------- the model file --------------------------- *)
\* What tobj::load_obj_buf_async yields for an OBJ file: per model the
\* mesh's material_id (None, or Some index into the materials), and the
\* materials of its MTL file, each with whether its diffuse texture loads.
Obj(material_ids, textures_ok) ==
    [models |-> material_ids,
     materials |-> [i \in 1..Len(textures_ok) |->
                      [name |-> i - 1, texture_ok |-> textures_ok[i]]]]

\* One mesh with its one material.
CubeObj == Obj(<<Some(0)>>, <<TRUE>>)
\* One mesh, no mtllib: material_id is None and there are no materials.
NoMaterialObj == Obj(<<None>>, <<>>)
\* Two meshes, each with its own material.
TwoMeshObj == Obj(<<Some(0), Some(1)>>, <<TRUE, TRUE>>)
\* A material whose texture file is missing.
MissingTextureObj == Obj(<<Some(0)>>, <<FALSE>>)
\* No geometry at all.
EmptyObj == Obj(<<>>, <<>>)

ObjFiles == {CubeObj, NoMaterialObj, TwoMeshObj, MissingTextureObj, EmptyObj}

\* Option::unwrap_or
unwrap_or(opt, default) == IF opt = None THEN default ELSE opt[1]

\* resources::load_model: Err when a material's texture fails to load
\* (load_texture(..).await?), else Ok(Model {meshes, materials}).
load_model(obj) ==
    IF \E i \in 1..Len(obj.materials) : ~obj.materials[i].texture_ok
    THEN [ok |-> FALSE, meshes |-> <<>>, materials |-> <<>>]
    ELSE [ok |-> TRUE,
          meshes |-> [i \in 1..Len(obj.models) |->
                        [buffers |-> i - 1,
                         material |-> unwrap_or(obj.models[i], 0)]],
          materials |-> [i \in 1..Len(obj.materials) |->
                           [name |-> obj.materials[i].name,
                            bind_group |-> i - 1]]]

\* model::DrawModel::draw_mesh_instanced (model.rs is not in src/): binds the
\* mesh's vertex and index buffers, the material's bind group at slot 0 and
\* the camera bind group at slot 1, and issues one indexed draw over the
\* instance range.
draw_mesh_instanced(mesh, material, first, end) ==
    [buffers |-> mesh.buffers,
     bind_group_0 |-> material.bind_group,
     bind_group_1 |-> "camera_bind_group",
     instances |-> <<first, end>>]

(* --------------------------- GameState -------------------------------- *)
\* The calls a handler makes are appended to trace; draws holds the draws it
\* recorded in its render pass; submitted holds what the GPU read from the
\* camera buffer for the frame the handler submitted.
Log(gs, call) == [gs EXCEPT !.trace = Append(@, call)]

\* A handler starts with an empty call trace.
Begin(opt) == IF IsSome(opt)
              THEN Some([opt[1] EXCEPT !.trace = <<>>, !.submitted = None,
                                       !.draws = <<>>])
              ELSE opt

\* GameState::new.  gpu_ok: the surface, adapter and device are obtained
\* (each is expect()ed); obj: the content of "cube.obj"; n: the row length
\* of the instance grid.  None stands for a panic inside new.
GameState_new(size, gpu_ok, obj, n) ==
    LET config == size
        obj_model == load_model(obj)
    IN IF ~gpu_ok \/ ~obj_model.ok THEN None
       ELSE Some(
       [size |-> size,
        config |-> config,
        depth_texture |-> create_depth_texture(config),
        camera |-> Camera_new(size[1], size[2]),
        camera_uniform |-> CameraUniform_new,
        camera_buffer |-> CameraUniform_new,
        camera_controller |-> CameraController_new,
        instances |-> instances_new(n),
        obj_model |-> [meshes |-> obj_model.meshes,
                       materials |-> obj_model.materials],
        trace |-> <<"configure">>,
        draws |-> <<>>,
        submitted |-> None])

\* resize with the aspect taken from the configuration before it is updated.
resize_StaleAspect(gs, new_size) ==
    IF new_size[1] > 0 /\ new_size[2] > 0
    THEN [gs EXCEPT !.config = new_size,
                    !.size = new_size,
                    !.camera.aspect = Ratio(gs.config[1], gs.config[2]),
                    !.trace = Append(@, "configure"),
                    !.depth_texture = create_depth_texture(new_size)]
    ELSE gs

\* resize guarded by "width > 0 || height > 0".
resize_OrGuard(gs, new_size) ==
    IF new_size[1] > 0 \/ new_size[2] > 0
    THEN [gs EXCEPT !.config = new_size,
                    !.size = new_size,
                    !.camera.aspect = Ratio(new_size[1], new_size[2]),
                    !.trace = Append(@, "configure"),
                    !.depth_texture = create_depth_texture(new_size)]
    ELSE gs

\* resize that keeps the old depth texture.
resize_KeepDepth(gs, new_size) ==
    IF new_size[1] > 0 /\ new_size[2] > 0
    THEN [gs EXCEPT !.config = new_size,
                    !.size = new_size,
                    !.camera.aspect = Ratio(new_size[1], new_size[2]),
                    !.trace = Append(@, "configure")]
    ELSE gs

\* GameState::resize
resize(gs, new_size) ==
    IF new_size[1] > 0 /\ new_size[2] > 0
    THEN LET config == <<new_size[1], new_size[2]>>
         IN [gs EXCEPT !.config = config,
                       !.size = new_size,
                       !.camera.aspect = Ratio(config[1], config[2]),
                       !.trace = Append(@, "configure"),
                       !.depth_texture = create_depth_texture(config)]
    ELSE gs

\* GameState::input
input(gs, event) ==
    LET r == process_events(gs.camera_controller, event)
    IN [consumed |-> r.consumed,
        gs |-> [gs EXCEPT !.camera_controller = r.controller]]

\* update that recomputes the uniform but never writes the camera buffer.
update_NoWrite(gs) ==
    LET camera == update_camera(gs.camera_controller, gs.camera)
    IN [gs EXCEPT !.camera = camera,
                  !.camera_uniform = update_view_proj(camera),
                  !.trace = Append(@, "update")]

\* GameState::update
update(gs) ==
    LET camera == update_camera(gs.camera_controller, gs.camera)
        uniform == update_view_proj(camera)
    IN [gs EXCEPT !.camera = camera,
                  !.camera_uniform = uniform,
                  !.camera_buffer = uniform,
                  !.trace = Append(@, "update")]

\* GameState::render.  get_current_texture().ok().unwrap() panics on every
\* SurfaceError, so the only value render returns is Ok(()).
\* meshes[0] and materials[0] panic when the model has no mesh or no
\* material, inside the render pass and before submit.
render(gs, acquire) ==
    LET got == Log(gs, "render")
        pass == Log(got, "begin_render_pass")
    IN IF acquire # "Ok"
       THEN [result |-> "Panic", gs |-> got]
       ELSE IF Len(gs.obj_model.meshes) = 0 \/ Len(gs.obj_model.materials) = 0
       THEN [result |-> "Panic", gs |-> pass]
       ELSE [result |-> "Ok",
             gs |-> [pass EXCEPT
                       !.trace = @ \o <<"draw_mesh_instanced", "submit", "present">>,
                       !.draws = Append(@,
                           draw_mesh_instanced(gs.obj_model.meshes[1],
                                               gs.obj_model.materials[1],
                                               0, Len(gs.instances))),
                       !.submitted = Some([buffer |-> gs.camera_buffer,
                                           camera |-> gs.camera])]]

(* ------------------------------- App ---------------------------------- *)
Panic(app) == [app EXCEPT !.panicked = TRUE]

\* resumed without the window.is_none() guard.
resumed_NoGuard(app, inner_size, window_ok, gpu_ok, obj, n) ==
    IF ~window_ok THEN [app EXCEPT !.panicked = TRUE]
    ELSE LET a1 == [app EXCEPT !.window = Some(OwnId), !.new_calls = @ + 1]
             made == GameState_new(inner_size, gpu_ok, obj, n)
         IN IF made = None THEN [a1 EXCEPT !.panicked = TRUE]
            ELSE [a1 EXCEPT !.state = made]

\* App::resumed.  inner_size is the physical size the new window reports;
\* window_ok tells whether create_window succeeds (it is expect()ed); the
\* other inputs are those of GameState::new.
resumed(app, inner_size, window_ok, gpu_ok, obj, n) ==
    IF app.window = None
    THEN IF ~window_ok THEN Panic(app)
         ELSE LET a1 == [app EXCEPT !.window = Some(OwnId),
                                    !.new_calls = @ + 1]
                  made == GameState_new(inner_size, gpu_ok, obj, n)
              IN IF made = None THEN Panic(a1)
                 ELSE [a1 EXCEPT !.state = made]
    ELSE app

\* The RedrawRequested arm of App::window_event.
redraw(app, acquire) ==
    LET g1 == update(app.state[1])
        r == render(g1, acquire)
    IN IF r.result = "Panic"
       THEN Panic([app EXCEPT !.state = Some(r.gs)])
       ELSE LET a2 ==
                  CASE r.result = "Ok" ->
                         [app EXCEPT !.state = Some(update(r.gs))]
                    [] r.result = "Lost" ->
                         [app EXCEPT !.state = Some(resize(r.gs, r.gs.size))]
                    [] r.result = "OutOfMemory" ->
                         [app EXCEPT !.state = Some(r.gs), !.exiting = TRUE]
                    [] OTHER ->
                         [app EXCEPT !.state = Some(Log(r.gs, "eprintln"))]
            IN [a2 EXCEPT !.redraw_requested = TRUE]

\* App::window_event
window_event(app, id, event, acquire) ==
    IF app.window = None THEN Panic(app)
    ELSE IF id # app.window[1] THEN app
    ELSE IF app.state = None THEN Panic(app)
    ELSE LET inp == input(app.state[1], event)
             a1 == [app EXCEPT !.state = Some(inp.gs)]
         IN IF inp.consumed THEN a1
            ELSE CASE event.kind = "CloseRequested" ->
                        [a1 EXCEPT !.exiting = TRUE]
                   [] event.kind = "Resized" ->
                        [a1 EXCEPT !.state =
                             Some(resize(inp.gs, <<event.w, event.h>>))]
                   [] event.kind = "RedrawRequested" ->
                        redraw(a1, acquire)
                   [] OTHER -> a1

(* ------------------------- the event loop ----------------------------- *)
Init ==
    /\ window = None
    /\ state = None
    /\ exiting = FALSE
    /\ panicked = FALSE
    /\ redraw_requested = FALSE
    /\ new_calls = 0
    /\ resumed_count = 0
    /\ last = [handler |-> "none", id |-> OwnId,
               event |-> Ev("none", 0, 0, "Q", FALSE), acquire |-> "Ok",
               pre_window |-> None, pre_state |-> None,
               pre_new_calls |-> 0]

\* The event loop delivers events while the process lives and exit() has
\* not been called.
Running == ~panicked /\ ~exiting

Set(app) ==
    /\ window' = app.window
    /\ state' = app.state
    /\ exiting' = app.exiting
    /\ panicked' = app.panicked
    /\ redraw_requested' = app.redraw_requested
    /\ new_calls' = app.new_calls

\* The application as a handler finds it: empty call trace.
Entry == [App EXCEPT !.state = Begin(state)]

\* A resumed event; the window reports a size of sizes, "cube.obj" holds one
\* of objs, and the instance grid has n rows per axis.
ResumedOn(sizes, objs, n) ==
    /\ Running
    /\ resumed_count < MaxResumed
    /\ resumed_count' = resumed_count + 1
    /\ \E inner_size \in sizes, window_ok \in BOOLEAN, gpu_ok \in BOOLEAN,
          obj \in objs :
          /\ Set(resumed(Entry, inner_size, window_ok, gpu_ok, obj, n))
          /\ last' = [handler |-> "resumed", id |-> OwnId,
                      event |-> Ev("none", 0, 0, "Q", FALSE), acquire |-> "Ok",
                      pre_window |-> window, pre_state |-> Begin(state),
                      pre_new_calls |-> new_calls]

\* Frame dispatch: any window size, a one-mesh one-material model file, a
\* short instance grid.
Resumed == ResumedOn(PosSizes, {CubeObj}, ShortRow)

\* A window event reaches the handler only once a window exists.
Deliver(id, event, acquire) ==
    /\ window # None
    /\ Set(window_event(
             IF event.kind = "RedrawRequested" /\ id = OwnId
             THEN [Entry EXCEPT !.redraw_requested = FALSE] ELSE Entry,
             id, event, acquire))
    /\ last' = [handler |-> "window_event", id |-> id, event |-> event,
                acquire |-> acquire,
                pre_window |-> window, pre_state |-> Begin(state),
                      pre_new_calls |-> new_calls]
    /\ UNCHANGED resumed_count

CloseRequested ==
    /\ Running
    /\ Deliver(OwnId, Ev("CloseRequested", 0, 0, "Q", FALSE), "Ok")

Resized ==
    \E w \in Dims, h \in Dims :
        /\ Running
        /\ Deliver(OwnId, Ev("Resized", w, h, "Q", FALSE), "Ok")

RedrawRequested ==
    \E acquire \in Acquires :
        /\ Running
        /\ Deliver(OwnId, Ev("RedrawRequested", 0, 0, "Q", FALSE), acquire)

KeyboardInput ==
    \E key \in Keys, pressed \in BOOLEAN :
        /\ Running
        /\ Deliver(OwnId, Ev("KeyboardInput", 0, 0, key, pressed), "Ok")

CursorMoved ==
    /\ Running
    /\ Deliver(OwnId, Ev("CursorMoved", 0, 0, "Q", FALSE), "Ok")

\* An event of any kind addressed to another window: the handler returns at
\* the window id test, before it looks at the event.
ForeignEvent ==
    \E id \in WindowIds \ {OwnId},
       k \in {"CloseRequested", "Resized", "RedrawRequested",
              "KeyboardInput", "CursorMoved"} :
        /\ Running
        /\ Deliver(id, Ev(k, MaxDim, MaxDim, "W", TRUE), "Ok")

Next ==
    \/ Resumed
    \/ CloseRequested
    \/ Resized
    \/ RedrawRequested
    \/ KeyboardInput
    \/ CursorMoved
    \/ ForeignEvent

Spec == Init /\ [][Next]_vars

(* ------ the same handlers on the source's grid, and on any model ------- *)
\* Events for the own window, from narrower input sets than Spec's.  Under
\* SpecGrid the instance grid has the source's row length; under SpecModels
\* "cube.obj" holds any of ObjFiles.
GridResumed == ResumedOn({<<1, 1>>}, {CubeObj}, NumInstancesPerRow)

ModelResumed == ResumedOn({<<1, 1>>}, ObjFiles, ShortRow)

OwnResized ==
    \E size \in {<<0, 1>>, <<2, 1>>} :
        /\ Running
        /\ Deliver(OwnId, Ev("Resized", size[1], size[2], "Q", FALSE), "Ok")

OwnRedrawRequested ==
    \E acquire \in Acquires :
        /\ Running
        /\ Deliver(OwnId, Ev("RedrawRequested", 0, 0, "Q", FALSE), acquire)

OwnKeyboardInput ==
    \E key \in Keys, pressed \in BOOLEAN :
        /\ Running
        /\ Deliver(OwnId, Ev("KeyboardInput", 0, 0, key, pressed), "Ok")

OwnCloseRequested ==
    /\ Running
    /\ Deliver(OwnId, Ev("CloseRequested", 0, 0, "Q", FALSE), "Ok")

NextGrid ==
    \/ GridResumed
    \/ OwnResized
    \/ OwnRedrawRequested
    \/ OwnKeyboardInput
    \/ OwnCloseRequested

SpecGrid == Init /\ [][NextGrid]_vars

NextModels ==
    \/ ModelResumed
    \/ OwnResized
    \/ OwnRedrawRequested
    \/ OwnKeyboardInput
    \/ OwnCloseRequested

SpecModels == Init /\ [][NextModels]_vars

(* ------------------------------ claims -------------------------------- *)
\* The handler that ran last was window_event for the application's own
\* window, with an event of this kind.
Handled(k) ==
    /\ last.handler = "window_event"
    /\ last.id = OwnId
    /\ last.event.kind = k

GS == state[1]
Pre == last.pre_state[1]

\* C1: after resize(width, height) with width > 0 and height > 0 the stored
\* size and the surface configuration equal the arguments and the camera
\* aspect is width / height.
C1_ResizeSetsSizeConfigAspect ==
    (Handled("Resized") /\ last.event.w > 0 /\ last.event.h > 0)
    => /\ GS.size = <<last.event.w, last.event.h>>
       /\ GS.config = <<last.event.w, last.event.h>>
       /\ GS.camera.aspect[2] > 0
       /\ GS.camera.aspect[1] * last.event.h = GS.camera.aspect[2] * last.event.w

C1_Witness ==
    /\ Handled("Resized") /\ last.event.w > 0 /\ last.event.h > 0
    /\ Pre.size # <<last.event.w, last.event.h>>
    /\ Pre.camera.aspect # GS.camera.aspect
    /\ GS.size = <<last.event.w, last.event.h>>

\* C2: resize with width = 0 or height = 0 changes nothing of the Render
\* State (size, camera aspect, surface configuration, depth buffer) and
\* does not reconfigure the surface.
C2_ZeroResizeIsNoOp ==
    (Handled("Resized") /\ (last.event.w = 0 \/ last.event.h = 0))
    => /\ state = last.pre_state
       /\ ~Has(GS.trace, "configure")

C2_Witness ==
    /\ Handled("Resized")
    /\ last.event.w = 0 /\ last.event.h > 0
    /\ last.event.h # Pre.size[2]
    /\ state = last.pre_state

\* C3: in every state after initialization the depth buffer's dimensions
\* equal the surface configuration's, which equal the stored size.
C3_DepthMatchesConfigMatchesSize ==
    state # None
    => /\ GS.depth_texture = GS.config
       /\ GS.config = GS.size

C3_Witness ==
    /\ Handled("Resized")
    /\ Pre.depth_texture # <<last.event.w, last.event.h>>
    /\ GS.depth_texture = <<last.event.w, last.event.h>>
    /\ GS.size = <<last.event.w, last.event.h>>

\* C4: a frame whose surface acquisition fails with lost or outdated is not
\* fatal: resize runs with the stored size, nothing is presented, and the
\* application keeps running.
C4_LostOrOutdatedRecovers ==
    (Handled("RedrawRequested") /\ last.acquire \in {"Lost", "Outdated"})
    => /\ ~panicked
       /\ ~exiting
       /\ Has(GS.trace, "configure")
       /\ GS.size = Pre.size
       /\ ~Has(GS.trace, "present")

\* C5: a frame whose surface acquisition fails with out-of-memory ends with
\* the event loop told to exit, not with a panic inside render().
C5_OutOfMemoryExits ==
    (Handled("RedrawRequested") /\ last.acquire = "OutOfMemory")
    => /\ exiting
       /\ ~panicked

\* C6: a frame whose surface acquisition fails with any other error is
\* reported and the application continues: no panic, no exit, no resize,
\* and the next frame is requested.
C6_OtherErrorContinues ==
    (Handled("RedrawRequested") /\ last.acquire = "Timeout")
    => /\ ~panicked
       /\ ~exiting
       /\ Has(GS.trace, "eprintln")
       /\ ~Has(GS.trace, "configure")
       /\ redraw_requested

\* C7: after every RedrawRequested frame, whatever the render outcome, a new
\* redraw is requested, unless the frame ended in event-loop exit, after
\* which none is requested.
C7_RedrawAlwaysRequested ==
    Handled("RedrawRequested")
    => IF exiting THEN ~redraw_requested ELSE redraw_requested

\* C8: in a RedrawRequested frame update() is called exactly once, and
\* before render().
C8_OneUpdatePerFrame ==
    (Handled("RedrawRequested") /\ Has(GS.trace, "render"))
    => /\ Count(GS.trace, "update") = 1
       /\ FirstIndex(GS.trace, "update") < FirstIndex(GS.trace, "render")

\* C9: what render() reads from the camera uniform buffer is the
\* view-projection matrix of the camera as it is at that moment.
C9_RenderReadsFreshMatrix ==
    (state # None /\ GS.submitted # None)
    => GS.submitted[1].buffer = update_view_proj(GS.submitted[1].camera)

\* A frame was submitted from a state whose buffer was stale (a key or a
\* resize changed the camera since the buffer was written).
C9_Witness ==
    /\ Handled("RedrawRequested")
    /\ GS.submitted # None
    /\ Pre.camera_buffer # update_view_proj(GS.submitted[1].camera)
    /\ GS.submitted[1].camera # Pre.camera
    /\ Pre.camera_buffer # CameraUniform_new

\* C10: GameState::new runs exactly once, in the first resumed event and
\* before any window event is handled; a later resumed event leaves window
\* and Render State unchanged; no window event constructs.
C10_ConstructedOnce ==
    /\ new_calls <= 1
    /\ (state # None => new_calls = 1)
    /\ (last.handler = "resumed" /\ last.pre_window = None /\ ~panicked
          => new_calls = 1 /\ last.pre_new_calls = 0 /\ state # None)
    /\ (last.handler = "resumed" /\ last.pre_window # None
          => /\ window = last.pre_window
             /\ state = last.pre_state
             /\ new_calls = last.pre_new_calls)
    /\ (last.handler = "window_event"
          => new_calls = 1 /\ last.pre_new_calls = 1)

C10_Witness ==
    /\ last.handler = "resumed"
    /\ last.pre_window # None
    /\ state # None
    /\ resumed_count = 2

\* C11: the instance set holds num_instances_per_row^3 instances; the one at
\* position (0,0,0) has the identity rotation and every other one is rotated
\* by 45 degrees about its normalized position vector; and no handler adds,
\* removes or changes an instance.
Cross(a, b) == <<a[2] * b[3] - a[3] * b[2],
                 a[3] * b[1] - a[1] * b[3],
                 a[1] * b[2] - a[2] * b[1]>>
Dot(a, b) == a[1] * b[1] + a[2] * b[2] + a[3] * b[3]

C11_InstanceGrid ==
    state # None
    => /\ Len(GS.instances)
            = NumInstancesPerRow * NumInstancesPerRow * NumInstancesPerRow
       /\ Cardinality({k \in 1..Len(GS.instances) :
                          GS.instances[k].position = <<0, 0, 0>>}) = 1
       /\ \A k \in 1..Len(GS.instances) :
            LET position == GS.instances[k].position
                rotation == GS.instances[k].rotation
            IN IF position = <<0, 0, 0>>
               THEN rotation.deg = 0 /\ rotation.axis = <<0, 0, 0>>
               ELSE /\ rotation.deg = 45
                    /\ Cross(rotation.axis, position) = <<0, 0, 0>>
                    /\ Dot(rotation.axis, position) > 0
                    /\ Gcd(Gcd(Abs(rotation.axis[1]), Abs(rotation.axis[2])),
                           Abs(rotation.axis[3])) = 1
       /\ (last.pre_state # None => GS.instances = Pre.instances)

\* A frame was drawn on the full grid after a resize and a camera move.
C11_Witness ==
    /\ Handled("RedrawRequested")
    /\ ~panicked
    /\ Len(GS.draws) = 1
    /\ Len(GS.instances) = 1000
    /\ Pre.size # <<1, 1>>
    /\ Pre.camera.eye # 0
    /\ GS.instances = Pre.instances

\* C12: every mesh's material index of a loaded Model is a valid index into
\* the Model's materials.
C12_MaterialIndexValid ==
    state # None
    => \A i \in 1..Len(GS.obj_model.meshes) :
          /\ GS.obj_model.meshes[i].material >= 0
          /\ GS.obj_model.meshes[i].material < Len(GS.obj_model.materials)

\* C13: on a successful acquisition (of a model whose material indices are
\* valid) render() records one render pass that draws every mesh once, with
\* the mesh's own material bind group, the camera bind group and the full
\* instance range, then submits once and presents once.
C13_DrawsEveryMesh ==
    (/\ Handled("RedrawRequested")
     /\ last.acquire = "Ok"
     /\ \A i \in 1..Len(GS.obj_model.meshes) :
           GS.obj_model.meshes[i].material < Len(GS.obj_model.materials))
    => /\ ~panicked
       /\ Count(GS.trace, "begin_render_pass") = 1
       /\ Len(GS.draws) = Len(GS.obj_model.meshes)
       /\ \A i \in 1..Len(GS.draws) :
            /\ GS.draws[i].buffers = GS.obj_model.meshes[i].buffers
            /\ GS.draws[i].bind_group_0 =
                 GS.obj_model.materials[
                     GS.obj_model.meshes[i].material + 1].bind_group
            /\ GS.draws[i].bind_group_1 = "camera_bind_group"
            /\ GS.draws[i].instances = <<0, Len(GS.instances)>>
       /\ Count(GS.trace, "submit") = 1
       /\ Count(GS.trace, "present") = 1

====
